---------------------------- MODULE Spec2Model ----------------------------
(***************************************************************************)
(* Model of autoblogger's rate limiting                                    *)
(* (archive/old-system/src/security/rate_limiting.py).                     *)
(*                                                                         *)
(* Time is counted in integer clock ticks (datetime.now() sampled at a     *)
(* fixed resolution).  refill_period is a number of ticks.  refill_rate is *)
(* a float in the code; here it is the rational refill_rate / RateDen, so  *)
(* that fractional rates (0.5, 1.5 tokens per period) are representable.   *)
(* tokens is an integer: it starts as capacity, the refill adds            *)
(* int(periods * refill_rate) and acquire deducts an integer amount.       *)
(***************************************************************************)
EXTENDS Integers, Sequences, FiniteSets, TLC

\* ------------------------------------------------------------------ bounds

\* Largest bucket capacity explored.
MaxCap == 3
\* Last clock tick explored.
MaxTime == 5
\* Longest refill_period explored, in ticks.
MaxPeriod == 2
\* Resolution of refill_rate: the rate is refill_rate / RateDen tokens per period.
RateDen == 2
\* Largest refill_rate explored is MaxRate / RateDen tokens per period.
MaxRate == 2 * RateDen
\* Largest amount passed to acquire: one more than any capacity.
MaxReq == MaxCap + 1
\* Longest run of acquire(1) calls followed after a construction or a reset.
MaxStreak == MaxCap + 2
\* The amounts passed to acquire(tokens: int): the code accepts any integer.
Amounts == (0 - 1)..MaxReq
\* Token counts above this are not explored.
MaxTokens == MaxCap + 1
\* Number of most recent grants remembered.
MaxLog == 3
\* Number of concurrent callers of acquire(1).
NumCallers == 3
\* Number of calls made through the decorated function.
MaxRuns == 2

Callers == 1..NumCallers

NoOwner == 0

\* Up to this many articles are published.
MaxPublish ==
    3

\* RateLimiter(max_requests=...): up to this many requests per window.
MaxRequests ==
    2

\* RateLimiter(time_window=...): up to this many ticks.
MaxWindow ==
    2

\* Number of threads calling get_rate_limiter.
NumThreads == 2
\* Limiter instances constructed at most, beyond the module-level ones.
MaxNew == 3

Threads == 1..NumThreads

\* Resource names passed to security.rate_limiting.get_rate_limiter.
Names == {"provider-a", "image-service"}

\* Provider names passed to utils.retry.get_rate_limiter; "openai" is the one
\* RealAIProvider passes and is not among the pre-configured limiters.
Providers == {"gemini", "unsplash", "groq", "openai"}

\* No limiter under that name.
Absent == 0

\* Largest requests_per_minute explored.
MaxPerMinute == 2
\* Longest cleanup_interval explored, in ticks.
MaxCleanup == 2
\* timedelta(minutes=1), the trailing window of IPRateLimiter, in ticks.
Window == 3

Addresses == {"192.168.1.1", "192.168.1.2"}

\* The identities of the limiters utils/retry.py constructs at import.
GEMINI_RATE_LIMITER == 1

UNSPLASH_RATE_LIMITER == 2

GROQ_RATE_LIMITER == 3

\* retry(max_attempts=...): up to this many attempts.
MaxAttempts ==
    3

\* retry(backoff_base=...) is a float: the model's backoff_base counts
\* units of 1/BaseDen, so that bases below 1 exist.
BaseDen ==
    2

\* retry(backoff_base=...): up to this many units of 1/BaseDen.
MaxBase ==
    4

\* retry(backoff_max=...): up to this ceiling, in seconds.
MaxBackoff ==
    3

\* What the wrapped operation returns when it succeeds.
Results == {"article", "summary"}

\* What the wrapped operation raises when it fails (models.py).
FailureKinds == {"APIError", "RateLimitError", "GenerationError"}

\* The tuples given as on_exceptions: the default, the content generator's,
\* and one class alone.
OnExceptions == {{"Exception"}, {"APIError", "RateLimitError"},
                 {"RateLimitError"}}

\* The base class of an exception class (models.py).
Base(cls) ==
    CASE cls = "RateLimitError" -> "APIError"
      [] cls = "NetworkError" -> "APIError"
      [] cls = "APIError" -> "AutoBloggerError"
      [] cls = "GenerationError" -> "AutoBloggerError"
      [] cls = "AutoBloggerError" -> "Exception"
      [] OTHER -> "BaseException"

\* last_exception = None
NoException == [cls |-> "None", from |-> 0]

Min(a, b) == IF a <= b THEN a ELSE b

\* ------------------------------------------------------------------- state

VARIABLES
    capacity,       \* RateLimiter.capacity
    refill_rate,    \* RateLimiter.refill_rate, in units of 1/RateDen token
    refill_period,  \* RateLimiter.refill_period, in ticks
    tokens,         \* RateLimiter.tokens
    last_refill,    \* RateLimiter.last_refill
    now,            \* the wall clock, datetime.now()
    last,           \* history: what the most recent call on the bucket did
    streak,         \* history: the acquire(1) calls since construction/reset
    grants,         \* history: the most recent grants, as <<time, amount>>
    lock,           \* RateLimiter._lock: the caller holding it, or NoOwner
    pc,             \* each concurrent caller's position in acquire
    result,         \* each concurrent caller's return value, once it has one
    conc,           \* history: the tokens the callers found, refills since
    wrapper,        \* a call of the rate_limit_decorator wrapper
    global_limiters,\* security.rate_limiting._global_limiters: name -> instance
    next_id,        \* the identity the next constructed limiter gets
    thread,         \* each thread's position in get_rate_limiter
    returned,       \* history: <<name, instance>> returned by get_rate_limiter
    provided,       \* history: <<provider, instance>> returned by
                    \* utils.retry.get_rate_limiter
    requests_per_minute, \* IPRateLimiter.requests_per_minute
    cleanup_interval,    \* IPRateLimiter.cleanup_interval, in ticks
    requests,       \* IPRateLimiter.requests: address -> its timestamp log
    last_cleanup,   \* IPRateLimiter._last_cleanup
    ipLast,         \* history: what the most recent IPRateLimiter call did
    allowed,        \* history: per address, the times within the trailing
                    \* window at which is_allowed returned True
    max_attempts,   \* retry(max_attempts)
    backoff_base,   \* retry(backoff_base), in units of 1/BaseDen
    backoff_max,    \* retry(backoff_max)
    jitter,         \* retry(jitter)
    on_exceptions,  \* retry(on_exceptions), as a set of class names
    is_async,       \* asyncio.iscoroutinefunction(func): which wrapper runs
    attempt,        \* the loop index of the wrapper
    last_exception, \* the wrapper's last_exception
    rpc,            \* the wrapper's position: idle, try, sleep or done
    invocations,    \* history: what each invocation of func gave
    sleeps,         \* history: the backoff of each sleep, before jitter,
                    \* in units of 1/Second s
    jittered,       \* history: the jitter of the latest sleep, in units of
                    \* 1/(10 * Second) s
    outcome,        \* history: how the wrapped call ended
    cancelled,      \* history: the call was cancelled in its backoff sleep
    max_requests,   \* utils.retry.RateLimiter.max_requests
    time_window,    \* utils.retry.RateLimiter.time_window, in ticks
    api_requests,   \* utils.retry.RateLimiter.requests
    api_lock,       \* utils.retry.RateLimiter._lock: its holder, or NoOwner
    api_pc,         \* each caller's position in utils.retry acquire
    wake_at,        \* the time at which the sleeping caller's sleep is over
    completed,      \* history: the times within the trailing time_window at
                    \* which an acquire recorded its request
    apiLast,        \* history: the acquire that completed most recently
    rate_limit_enabled, \* web_app.rate_limit_enabled
    webLast,        \* history: what the web layer did with the latest request
    out_files,      \* the files in FilePublisher.output_dir
    published       \* history: the publish calls that returned success

config == <<capacity, refill_rate, refill_period>>

bucket == <<capacity, refill_rate, refill_period, tokens, last_refill>>

seqHist == <<last, streak>>

concVars == <<lock, pc, result, conc>>

regVars == <<global_limiters, next_id, thread, returned, provided>>

\* What the token bucket's own actions leave alone.
ipVars == <<requests_per_minute, cleanup_interval, requests, last_cleanup,
           ipLast, allowed>>

retryPolicy == <<max_attempts, backoff_base, backoff_max, jitter,
                 on_exceptions, is_async>>

retryVars == <<retryPolicy, attempt, last_exception, rpc, invocations,
               sleeps, jittered, outcome, cancelled>>

windowVars == <<max_requests, time_window, api_requests, api_lock, api_pc,
                wake_at, completed, apiLast>>

webVars == <<rate_limit_enabled, webLast>>

pubVars == <<out_files, published>>

others == <<regVars, ipVars, retryVars, windowVars, webVars, pubVars>>

\* Everything of the token bucket but the clock.
tbVars == <<bucket, seqHist, grants, concVars, wrapper>>

\* What the registries' actions leave alone.
notReg == <<tbVars, now, ipVars, retryVars, windowVars, webVars, pubVars>>

\* What the IP limiter's actions leave alone, the clock and the web layer
\* that calls them apart.
notIp == <<tbVars, regVars, retryVars, windowVars, pubVars>>

\* What the retry wrapper's actions leave alone.
notRetry == <<tbVars, now, regVars, ipVars, windowVars, webVars, pubVars>>

\* What the sliding-window limiter's actions leave alone, the clock apart.
notWindow == <<tbVars, regVars, ipVars, retryVars, webVars, pubVars>>

\* What the file publisher's actions leave alone, the clock apart.
notPub == <<tbVars, regVars, ipVars, retryVars, windowVars, webVars>>

vars == <<capacity, refill_rate, refill_period, tokens, last_refill, now,
          last, streak, grants, lock, pc, result, conc, wrapper, others>>

\* ------------------------------------------------- RateLimiter, the methods

\* A refill that counts whole elapsed periods only.
TokensToAddFloorPeriods(elapsed) ==
    ((elapsed \div refill_period) * refill_rate) \div RateDen

\* tokens_to_add = int(periods * refill_rate), periods = elapsed / refill_period
TokensToAdd(elapsed) ==
    (elapsed * refill_rate) \div (refill_period * RateDen)

\* The refill step of acquire: the token count it leaves.
Refilled(tok, elapsed) ==
    IF elapsed >= refill_period
    THEN Min(capacity, tok + TokensToAdd(elapsed))
    ELSE tok

\* The refill step of acquire: the last_refill it leaves.
RefillStamp(lr, t) ==
    IF t - lr >= refill_period THEN t ELSE lr

\* if self.tokens >= tokens
CanGrant(tok, n) == tok >= n

\* A deduction made whether or not the tokens are there.
DeductedAlways(tok, n) == tok - n

\* The token count acquire leaves, given the count after its refill step.
Deducted(tok, n) == IF CanGrant(tok, n) THEN tok - n ELSE tok

\* get_wait_time, as the rational WaitNum / refill_rate ticks
\* (tokens_needed / refill_rate * refill_period, with the rate's RateDen).
WaitNum(tok) ==
    IF tok >= 1 THEN 0 ELSE (1 - tok) * RateDen * refill_period

\* The first tick at which a sleep of get_wait_time() started at t has ended.
WakeTick(t, tok) ==
    t + ((WaitNum(tok) + refill_rate - 1) \div refill_rate)

\* A reset that restamps the bucket and leaves its tokens.
ResetTokensKeep(tok) == tok

\* reset(): the token count it leaves
ResetTokens(tok) == capacity

\* --------------------------------------------------------------- histories

NoCall == [op |-> "init", n |-> 0, at |-> 0, prevAt |-> 0, elapsed |-> 0,
           before |-> 0, afterRefill |-> 0, after |-> 0, granted |-> FALSE,
           lrBefore |-> 0, lrAfter |-> 0, wait |-> 0, afterWait |-> FALSE]

\* streak.calls consecutive acquire(1) calls followed the last construction or
\* reset with no tick and no other call in between; streak.grants were granted.
\* calls = -1: the run was broken, or is longer than MaxStreak.
\* start: "init" or "reset"; had: the token count the reset found.
FreshStreak(start, had) ==
    [calls |-> 0, grants |-> 0, start |-> start, had |-> had]

BrokenStreak == [calls |-> -1, grants |-> 0, start |-> "none", had |-> 0]

StreakAfterAcquire(n, granted) ==
    IF streak.calls >= 0 /\ streak.calls < MaxStreak /\ n = 1
    THEN [streak EXCEPT !.calls = @ + 1,
                        !.grants = @ + (IF granted THEN 1 ELSE 0)]
    ELSE BrokenStreak

\* ------------------------------------------------------------------ actions

\* RateLimiter.__init__: any configuration with capacity >= 1, rate > 0,
\* period > 0; the bucket starts full, stamped with the construction time.
NewBucket ==
    /\ capacity \in 1..MaxCap
    /\ refill_rate \in 1..MaxRate
    /\ refill_period \in 1..MaxPeriod
    /\ tokens = capacity
    /\ now = 0
    /\ last_refill = now

\* No concurrent callers, no decorated call, nothing remembered.
IdleCallers ==
    /\ lock = NoOwner
    /\ pc = [c \in Callers |-> "idle"]
    /\ result = [c \in Callers |-> "none"]
    /\ conc = [held |-> 0, refills |-> 0]

IdleWrapper ==
    wrapper = [pc |-> "idle", tokens |-> 0, wake |-> 0, acquired |-> FALSE,
               runs |-> 0]

\* The module-level state right after import; no thread is in a call.
\* Instances 1..3 are the limiters utils/retry.py constructs at import.
IdleRegistry ==
    /\ global_limiters = [n \in Names |-> Absent]
    /\ next_id = GROQ_RATE_LIMITER + 1
    /\ thread = [t \in Threads |-> [pc |-> "idle", name |-> "none"]]
    /\ returned = {}
    /\ provided = {}

\* A bucket nobody uses: the registry default of one token per period.
IdleBucket ==
    /\ capacity = 1
    /\ refill_rate = RateDen
    /\ refill_period = 1
    /\ tokens = capacity
    /\ now = 0
    /\ last_refill = now
    /\ last = NoCall
    /\ streak = BrokenStreak
    /\ grants = <<>>
    /\ IdleCallers
    /\ IdleWrapper

\* No call on the IP limiter yet.
NoIpCall == [op |-> "init", ip |-> "none", at |-> 0, allowed |-> FALSE,
             swept |-> FALSE, cleanupBefore |-> 0, value |-> 0,
             inWindow |-> 0,
             before |-> [a \in Addresses |-> [present |-> FALSE, log |-> <<>>]]]

\* IPRateLimiter.__init__: an empty registry, stamped with the construction time.
NewIPLimiter ==
    /\ requests_per_minute \in 1..MaxPerMinute
    /\ cleanup_interval \in 1..MaxCleanup
    /\ requests = [a \in Addresses |-> [present |-> FALSE, log |-> <<>>]]
    /\ last_cleanup = 0
    /\ ipLast = NoIpCall
    /\ allowed = [a \in Addresses |-> <<>>]

\* An IP limiter nobody uses.
IdleIP ==
    /\ requests_per_minute = 1
    /\ cleanup_interval = 1
    /\ requests = [a \in Addresses |-> [present |-> FALSE, log |-> <<>>]]
    /\ last_cleanup = 0
    /\ ipLast = NoIpCall
    /\ allowed = [a \in Addresses |-> <<>>]

\* The wrapper before its call: nothing invoked, nothing slept.
NoRetryCall ==
    /\ attempt = 0
    /\ last_exception = NoException
    /\ rpc = "idle"
    /\ invocations = <<>>
    /\ sleeps = <<>>
    /\ jittered = 0
    /\ outcome = [kind |-> "pending", value |-> "None", from |-> 0]
    /\ cancelled = FALSE

\* retry(...)(func): any policy the decorator accepts, on either kind of func.
NewRetry ==
    /\ max_attempts \in (0 - 1)..MaxAttempts
    /\ backoff_base \in 1..MaxBase
    /\ backoff_max \in 1..MaxBackoff
    /\ jitter \in BOOLEAN
    /\ on_exceptions \in OnExceptions
    /\ is_async \in BOOLEAN
    /\ NoRetryCall

\* A wrapper nobody calls.
IdleRetry ==
    /\ max_attempts = 1
    /\ backoff_base = BaseDen
    /\ backoff_max = 1
    /\ jitter = FALSE
    /\ on_exceptions = {"Exception"}
    /\ is_async = FALSE
    /\ NoRetryCall

\* No acquire of the sliding-window limiter has completed yet.
NoApiCall == [caller |-> NoOwner, at |-> 0, waited |-> FALSE, oldest |-> 0]

\* RateLimiter(max_requests, time_window).__init__, no caller inside.
EmptyWindow ==
    /\ api_requests = <<>>
    /\ api_lock = NoOwner
    /\ api_pc = [c \in Callers |-> "idle"]
    /\ wake_at = 0
    /\ completed = <<>>
    /\ apiLast = NoApiCall

NewWindow ==
    /\ max_requests \in 1..MaxRequests
    /\ time_window \in 1..MaxWindow
    /\ EmptyWindow

\* A sliding-window limiter nobody uses.
IdleWindow ==
    /\ max_requests = 1
    /\ time_window = 1
    /\ EmptyWindow

\* No request has come in yet.
NoRequest == [endpoint |-> "none", ip |-> "none", checks |-> 0,
              status |-> "none", handler |-> FALSE, served |-> FALSE]

\* web_app at import: RATE_LIMIT_ENABLED is read from the environment.
NewWeb ==
    /\ rate_limit_enabled \in BOOLEAN
    /\ webLast = NoRequest

\* A web layer nobody calls.
IdleWeb ==
    /\ rate_limit_enabled = TRUE
    /\ webLast = NoRequest

\* FilePublisher.__init__ on a fresh output directory.
EmptyOutput ==
    /\ out_files = {}
    /\ published = 0

IdleOthers ==
    IdleRegistry /\ IdleIP /\ IdleRetry /\ IdleWindow /\ IdleWeb
    /\ EmptyOutput

Init ==
    /\ IdleOthers
    /\ NewBucket
    /\ last = NoCall
    /\ streak = FreshStreak("init", 0)
    /\ grants = <<>>
    /\ IdleCallers
    /\ IdleWrapper

\* The clock advances.
Clock ==
    /\ now < MaxTime
    /\ now' = now + 1

\* await limiter.acquire(n) on the bucket: refill, check, deduct.
AcquireBucket(n) ==
    LET refilled == Refilled(tokens, now - last_refill)
    IN  /\ Deducted(refilled, n) <= MaxTokens
        /\ tokens' = Deducted(refilled, n)
        /\ last_refill' = RefillStamp(last_refill, now)
        /\ UNCHANGED config

\* What that call returns.
AcquireReturns(n) == CanGrant(Refilled(tokens, now - last_refill), n)

\* Time passes between calls.
Tick ==
    /\ Clock
    /\ streak' = BrokenStreak
    /\ UNCHANGED <<others, bucket, last, grants, concVars, wrapper>>

\* await limiter.acquire(n): the whole critical section.
Acquire(n) ==
    LET elapsed == now - last_refill
        refilled == Refilled(tokens, elapsed)
        granted == AcquireReturns(n)
    IN  /\ AcquireBucket(n)
        /\ last' = [op |-> "acquire", n |-> n, at |-> now, prevAt |-> last.at,
                    elapsed |-> elapsed, before |-> tokens,
                    afterRefill |-> refilled, after |-> tokens',
                    granted |-> granted,
                    lrBefore |-> last_refill, lrAfter |-> last_refill',
                    wait |-> 0,
                    afterWait |-> /\ last.op = "wait"
                                  /\ last.wait > 0
                                  /\ now = WakeTick(last.at, last.before)]
        /\ streak' = StreakAfterAcquire(n, granted)
        /\ UNCHANGED <<others, now, grants, concVars, wrapper>>

\* limiter.get_wait_time(): reads tokens, changes nothing.
GetWaitTime ==
    /\ last' = [NoCall EXCEPT !.op = "wait", !.at = now, !.prevAt = last.at,
                              !.before = tokens, !.after = tokens,
                              !.lrBefore = last_refill, !.lrAfter = last_refill,
                              !.wait = WaitNum(tokens)]
    /\ streak' = BrokenStreak
    /\ UNCHANGED <<others, bucket, now, grants, concVars, wrapper>>

\* limiter.reset()
Reset ==
    /\ tokens' = ResetTokens(tokens)
    /\ last_refill' = now
    /\ last' = [NoCall EXCEPT !.op = "reset", !.at = now, !.prevAt = last.at,
                              !.before = tokens, !.after = tokens',
                              !.lrBefore = last_refill, !.lrAfter = now]
    /\ streak' = FreshStreak("reset", tokens)
    /\ UNCHANGED <<others, config, now, grants, concVars, wrapper>>

Next ==
    \/ Tick
    \/ \E n \in Amounts : Acquire(n)
    \/ GetWaitTime
    \/ Reset

Spec == Init /\ [][Next]_vars

\* The same calls, restricted to amounts n >= 0.
NatNext ==
    \/ Tick
    \/ \E n \in 0..MaxReq : Acquire(n)
    \/ GetWaitTime
    \/ Reset

SpecNat == Init /\ [][NatNext]_vars

\* ------------------------------------------ the grants of one bucket in time

\* The log after a call for n tokens at time t: the last MaxLog grants.
Logged(log, t, n) ==
    LET all == Append(log, <<t, n>>)
    IN  IF Len(all) > MaxLog THEN Tail(all) ELSE all

RateTick ==
    /\ Clock
    /\ UNCHANGED <<others, bucket, seqHist, grants, concVars, wrapper>>

\* await limiter.acquire(n) with n >= 1, its grant remembered.
RateAcquire(n) ==
    /\ AcquireBucket(n)
    /\ grants' = IF AcquireReturns(n) THEN Logged(grants, now, n) ELSE grants
    /\ UNCHANGED <<others, now, seqHist, concVars, wrapper>>

RateNext ==
    \/ RateTick
    \/ \E n \in 1..MaxReq : RateAcquire(n)

SpecRate == Init /\ [][RateNext]_vars

\* ------------------------------------- concurrent callers of acquire(1)

\* Positions of a caller inside `async with self._lock`.
InCritical == {"refill", "check", "deduct", "deny", "exit"}

\* N callers are about to call acquire(1) on a bucket holding some tokens.
ConcInit ==
    /\ IdleOthers
    /\ capacity \in 1..MaxCap
    /\ refill_rate \in 1..MaxRate
    /\ refill_period \in 1..MaxPeriod
    /\ tokens \in 0..capacity
    /\ now = 0
    /\ last_refill = now
    /\ last = NoCall
    /\ streak = BrokenStreak
    /\ grants = <<>>
    /\ lock = NoOwner
    /\ pc = [c \in Callers |-> "start"]
    /\ result = [c \in Callers |-> "none"]
    /\ conc = [held |-> tokens, refills |-> 0]
    /\ IdleWrapper

\* A lock that admits a caller while another holds it.
LockFreeAlways(l) == TRUE

\* asyncio.Lock: acquired only when no caller holds it.
LockFree(l) == l = NoOwner

\* async with self._lock: entry
Enter(c) ==
    /\ pc[c] = "start"
    /\ LockFree(lock)
    /\ lock' = c
    /\ pc' = [pc EXCEPT ![c] = "refill"]
    /\ UNCHANGED <<others, bucket, now, seqHist, grants, result, conc, wrapper>>

\* now = datetime.now() ... self.last_refill = now
RefillStep(c) ==
    /\ pc[c] = "refill"
    /\ tokens' = Refilled(tokens, now - last_refill)
    /\ last_refill' = RefillStamp(last_refill, now)
    /\ conc' = [conc EXCEPT !.refills =
                   IF now - last_refill >= refill_period THEN 1 ELSE @]
    /\ pc' = [pc EXCEPT ![c] = "check"]
    /\ UNCHANGED <<others, config, now, seqHist, grants, lock, result, wrapper>>

\* if self.tokens >= tokens
CheckStep(c) ==
    /\ pc[c] = "check"
    /\ pc' = [pc EXCEPT ![c] = IF CanGrant(tokens, 1) THEN "deduct" ELSE "deny"]
    /\ UNCHANGED <<others, bucket, now, seqHist, grants, lock, result, conc, wrapper>>

\* self.tokens -= tokens; return True
DeductStep(c) ==
    /\ pc[c] = "deduct"
    /\ tokens' = tokens - 1
    /\ result' = [result EXCEPT ![c] = "true"]
    /\ pc' = [pc EXCEPT ![c] = "exit"]
    /\ UNCHANGED <<others, config, last_refill, now, seqHist, grants, lock, conc,
                   wrapper>>

\* logger.warning(...); return False
DenyStep(c) ==
    /\ pc[c] = "deny"
    /\ result' = [result EXCEPT ![c] = "false"]
    /\ pc' = [pc EXCEPT ![c] = "exit"]
    /\ UNCHANGED <<others, bucket, now, seqHist, grants, lock, conc, wrapper>>

\* async with self._lock: exit
Exit(c) ==
    /\ pc[c] = "exit"
    /\ lock' = NoOwner
    /\ pc' = [pc EXCEPT ![c] = "done"]
    /\ UNCHANGED <<others, bucket, now, seqHist, grants, result, conc, wrapper>>

ConcTick ==
    /\ Clock
    /\ UNCHANGED <<others, bucket, seqHist, grants, concVars, wrapper>>

ConcNext ==
    \/ ConcTick
    \/ \E c \in Callers : Enter(c)
    \/ \E c \in Callers : RefillStep(c)
    \/ \E c \in Callers : CheckStep(c)
    \/ \E c \in Callers : DeductStep(c)
    \/ \E c \in Callers : DenyStep(c)
    \/ \E c \in Callers : Exit(c)

SpecConc == ConcInit /\ [][ConcNext]_vars

\* ------------------------------------------------- rate_limit_decorator

\* rate_limit_decorator(limiter, tokens: int = 1)
DecoratorTokens == 1

\* wrapper(): if not await limiter.acquire(tokens): wait_time =
\* limiter.get_wait_time(); await asyncio.sleep(wait_time)
WrapperCall ==
    /\ wrapper.pc = "idle"
    /\ wrapper.runs < MaxRuns
    /\ AcquireBucket(DecoratorTokens)
    /\ wrapper' = IF AcquireReturns(DecoratorTokens)
                  THEN [wrapper EXCEPT !.pc = "call_func",
                                       !.tokens = DecoratorTokens,
                                       !.acquired = TRUE]
                  ELSE [wrapper EXCEPT !.pc = "sleep",
                                       !.tokens = DecoratorTokens,
                                       !.acquired = FALSE,
                                       !.wake = WakeTick(now, tokens')]
    /\ UNCHANGED <<others, now, seqHist, grants, concVars>>

\* The sleep has ended: await limiter.acquire(tokens), its result dropped.
WrapperRetry ==
    /\ wrapper.pc = "sleep"
    /\ now >= wrapper.wake
    /\ AcquireBucket(wrapper.tokens)
    /\ wrapper' = [wrapper EXCEPT !.pc = "call_func",
                                  !.acquired = AcquireReturns(wrapper.tokens)]
    /\ UNCHANGED <<others, now, seqHist, grants, concVars>>

\* return await func(*args, **kwargs)
WrapperCallFunc ==
    /\ wrapper.pc = "call_func"
    /\ wrapper' = [wrapper EXCEPT !.pc = "idle", !.runs = @ + 1]
    /\ UNCHANGED <<others, bucket, now, seqHist, grants, concVars>>

DecoTick ==
    /\ Clock
    /\ UNCHANGED <<others, bucket, seqHist, grants, concVars, wrapper>>

DecoNext ==
    \/ DecoTick
    \/ WrapperCall
    \/ WrapperRetry
    \/ WrapperCallFunc

SpecDeco == Init /\ [][DecoNext]_vars

\* ----------------------------------- one caller retrying, time unbounded

\* The bucket reads the clock only as now - last_refill. Here `now` counts
\* the ticks since last_refill was stamped, which stays 0, so that time can
\* go on for ever; past FullAfter ticks a refill fills the bucket whatever
\* the count, and the tick stops counting.
FullAfter == capacity * refill_period * RateDen

\* Time passes while the caller waits for its next try.
WaitTick ==
    /\ now < FullAfter
    /\ now' = now + 1
    /\ UNCHANGED <<others, bucket, seqHist, grants, concVars, wrapper>>

\* The caller tries again: await limiter.acquire(1). A refill stamps
\* last_refill with the time of the call, from which `now` then counts.
RetryAcquire ==
    LET elapsed == now - last_refill
        refilled == Refilled(tokens, elapsed)
    IN  /\ tokens' = Deducted(refilled, 1)
        /\ now' = now - RefillStamp(last_refill, now)
        /\ last' = [NoCall EXCEPT !.op = "acquire", !.n = 1,
                                  !.elapsed = elapsed, !.before = tokens,
                                  !.afterRefill = refilled,
                                  !.after = tokens',
                                  !.granted = CanGrant(refilled, 1)]
        /\ UNCHANGED <<others, config, last_refill, streak, grants,
                       concVars, wrapper>>

StarveNext == WaitTick \/ RetryAcquire

\* Time advances and the caller keeps retrying, at any spacing.
SpecStarve ==
    /\ Init
    /\ [][StarveNext]_vars
    /\ WF_vars(WaitTick)
    /\ WF_vars(RetryAcquire)

\* ------------------------------------------- the named-limiter registries

\* A thread calls security.rate_limiting.get_rate_limiter(name).
GetCall(t, name) ==
    /\ thread[t].pc \in {"idle", "done"}
    /\ thread' = [thread EXCEPT ![t] = [pc |-> "check", name |-> name]]
    /\ UNCHANGED <<notReg,
                   global_limiters, next_id, returned, provided>>

\* if name not in _global_limiters:
GetCheck(t) ==
    /\ thread[t].pc = "check"
    /\ thread' = [thread EXCEPT ![t].pc =
                     IF global_limiters[thread[t].name] = Absent
                     THEN "create" ELSE "return"]
    /\ UNCHANGED <<notReg,
                   global_limiters, next_id, returned, provided>>

\* _global_limiters[name] = RateLimiter(capacity=10, ...)
GetCreate(t) ==
    /\ thread[t].pc = "create"
    /\ next_id < GROQ_RATE_LIMITER + 1 + MaxNew
    /\ global_limiters' = [global_limiters EXCEPT ![thread[t].name] = next_id]
    /\ next_id' = next_id + 1
    /\ thread' = [thread EXCEPT ![t].pc = "return"]
    /\ UNCHANGED <<notReg,
                   returned, provided>>

\* return _global_limiters[name]
GetReturn(t) ==
    /\ thread[t].pc = "return"
    /\ returned' = returned \cup
                     {<<thread[t].name, global_limiters[thread[t].name]>>}
    /\ thread' = [thread EXCEPT ![t].pc = "done"]
    /\ UNCHANGED <<notReg,
                   global_limiters, next_id, provided>>

\* The limiters dict utils.retry.get_rate_limiter builds on each call.
Configured(provider) ==
    CASE provider = "gemini" -> GEMINI_RATE_LIMITER
      [] provider = "unsplash" -> UNSPLASH_RATE_LIMITER
      [] provider = "groq" -> GROQ_RATE_LIMITER
      [] OTHER -> Absent

\* limiters.get(provider, RateLimiter(max_requests=10, time_window=60)): the
\* default is constructed on every call, whether it is returned or not.
RetryGetRateLimiter(provider) ==
    /\ next_id < GROQ_RATE_LIMITER + 1 + MaxNew
    /\ next_id' = next_id + 1
    /\ provided' = provided \cup
                     {<<provider, IF Configured(provider) # Absent
                                  THEN Configured(provider) ELSE next_id>>}
    /\ UNCHANGED <<notReg,
                   global_limiters, thread, returned>>

RegNext ==
    \/ \E t \in Threads, name \in Names : GetCall(t, name)
    \/ \E t \in Threads : GetCheck(t)
    \/ \E t \in Threads : GetCreate(t)
    \/ \E t \in Threads : GetReturn(t)
    \/ \E provider \in Providers : RetryGetRateLimiter(provider)

RegInit ==
    IdleBucket /\ IdleRegistry /\ IdleIP /\ IdleRetry
    /\ IdleWindow /\ IdleWeb /\ EmptyOutput

SpecReg == RegInit /\ [][RegNext]_vars

\* --------------------------------------------------------- IPRateLimiter

\* [req_time for req_time in log if req_time > cutoff]
RecentLoose(log, cutoff) == SelectSeq(log, LAMBDA t : t > cutoff + 1)

Recent(log, cutoff) == SelectSeq(log, LAMBDA t : t > cutoff)

\* if (now - self._last_cleanup).total_seconds() > self.cleanup_interval
SweepDueAlways(t) == TRUE

SweepDue(t) == t - last_cleanup > cleanup_interval

\* _cleanup_old_requests(cutoff): addresses with recent requests keep those,
\* the others are deleted.
Cleaned(reqs, cutoff) ==
    [a \in Addresses |->
        IF reqs[a].present /\ Recent(reqs[a].log, cutoff) # <<>>
        THEN [present |-> TRUE, log |-> Recent(reqs[a].log, cutoff)]
        ELSE [present |-> FALSE, log |-> <<>>]]

\* if len(recent_requests) >= self.requests_per_minute: return False
UnderCeilingInclusive(recent) == Len(recent) <= requests_per_minute

UnderCeiling(recent) == Len(recent) < requests_per_minute

\* A denial that records the request all the same.
DeniedEntryRecording(entry, t) ==
    [present |-> TRUE, log |-> Append(entry.log, t)]

\* The address's entry after a denied call: self.requests[ip_address] was
\* read, which makes the defaultdict hold the address.
DeniedEntry(entry, t) == [present |-> TRUE, log |-> entry.log]

\* recent_requests.append(now); self.requests[ip_address] = recent_requests
AllowedEntry(recent, t) == [present |-> TRUE, log |-> Append(recent, t)]

\* A lookup through the defaultdict, which inserts the address.
LookedUpInserting(reqs, ip) ==
    [reqs EXCEPT ![ip] = [present |-> TRUE, log |-> reqs[ip].log]]

\* self.requests.get(ip_address, []): the registry after the lookup.
LookedUp(reqs, ip) == reqs

\* max(0, self.requests_per_minute - len(recent_requests))
Remaining(reqs, ip, t) ==
    LET left == requests_per_minute - Len(Recent(reqs[ip].log, t - Window))
    IN  IF left > 0 THEN left ELSE 0

IpTick ==
    /\ Clock
    /\ allowed' = [a \in Addresses |->
                     SelectSeq(allowed[a], LAMBDA t : t > now' - Window)]
    /\ UNCHANGED <<notIp, webVars,
                   requests_per_minute, cleanup_interval, requests,
                   last_cleanup, ipLast>>

\* await limiter.is_allowed(ip): the whole critical section.
IsAllowed(ip) ==
    LET cutoff == now - Window
        sweep == SweepDue(now)
        swept == IF sweep THEN Cleaned(requests, cutoff) ELSE requests
        recent == Recent(swept[ip].log, cutoff)
        ok == UnderCeiling(recent)
    IN  /\ last_cleanup' = IF sweep THEN now ELSE last_cleanup
        /\ requests' = [swept EXCEPT ![ip] =
                           IF ok THEN AllowedEntry(recent, now)
                           ELSE DeniedEntry(swept[ip], now)]
        /\ ipLast' = [op |-> "is_allowed", ip |-> ip, at |-> now,
                      allowed |-> ok, swept |-> sweep,
                      cleanupBefore |-> last_cleanup, value |-> 0,
                      inWindow |-> Len(allowed[ip]),
                      before |-> requests]
        /\ allowed' = IF ok THEN [allowed EXCEPT ![ip] = Append(@, now)]
                      ELSE allowed
        /\ UNCHANGED <<notIp, now, requests_per_minute, cleanup_interval>>

\* limiter.get_remaining_requests(ip)
GetRemainingRequests(ip) ==
    /\ requests' = LookedUp(requests, ip)
    /\ ipLast' = [NoIpCall EXCEPT !.op = "remaining", !.ip = ip, !.at = now,
                                  !.cleanupBefore = last_cleanup,
                                  !.value = Remaining(requests, ip, now),
                                  !.before = requests]
    /\ UNCHANGED <<notIp, webVars, now,
                   requests_per_minute, cleanup_interval, last_cleanup,
                   allowed>>

IpNext ==
    \/ IpTick
    \/ \E ip \in Addresses : IsAllowed(ip) /\ UNCHANGED webVars
    \/ \E ip \in Addresses : GetRemainingRequests(ip)

IpInit ==
    IdleBucket /\ IdleRegistry /\ NewIPLimiter /\ IdleRetry
    /\ IdleWindow /\ IdleWeb /\ EmptyOutput

SpecIp == IpInit /\ [][IpNext]_vars

\* ----------------------------------------------------- the retry wrapper

RECURSIVE IsInstance(_, _)
\* isinstance(e, cls), for e of class c.
IsInstance(c, cls) ==
    IF c = cls THEN TRUE
    ELSE IF c = "BaseException" THEN FALSE
    ELSE IsInstance(Base(c), cls)

\* A wrapper that retries on any failure.
CaughtAny(c) == TRUE

\* except on_exceptions as e
Caught(c) == \E cls \in on_exceptions : IsInstance(c, cls)

\* A wrapper that takes the attempt after the last for the last.
LastAttemptLate(a) == a = max_attempts

\* A wrapper that sleeps after every caught failure.
LastAttemptNever(a) == FALSE

\* if attempt == max_attempts - 1
LastAttempt(a) == a = max_attempts - 1

RECURSIVE Pow(_, _)
Pow(b, n) == IF n = 0 THEN 1 ELSE b * Pow(b, n - 1)

\* One second, in the unit of the backoff times: fine enough for every
\* power of a base the loop can compute.
Second == Pow(BaseDen, MaxAttempts)

\* A backoff without its ceiling.
BackoffUncapped(a) ==
    Pow(backoff_base, a) * Pow(BaseDen, MaxAttempts - a)

\* backoff_time = min(backoff_base ** attempt, backoff_max)
Backoff(a) ==
    Min(Pow(backoff_base, a) * Pow(BaseDen, MaxAttempts - a),
        backoff_max * Second)

\* random.uniform(0, backoff_time * 0.1), in tenths of the backoff's unit:
\* the two ends of the range and its middle.
Jitters(backoff) ==
    IF jitter THEN {0, backoff \div 2, backoff} ELSE {0}

\* A wrapper that drops the result of the operation.
ReturnedNone(r, n) == [kind |-> "returned", value |-> "None", from |-> n]

\* return func(*args, **kwargs), for the n-th invocation
ReturnedResult(r, n) == [kind |-> "returned", value |-> r, from |-> n]

\* raise e
Raised(e) == [kind |-> "raised", value |-> e.cls, from |-> e.from]

\* A wrapper that returns None where the loop has run out.
ReturnedNothing(e) == [kind |-> "returned", value |-> "None", from |-> 0]

\* raise last_exception: raising None is a TypeError of the interpreter.
RaisedLast(e) ==
    IF e = NoException
    THEN [kind |-> "raised", value |-> "TypeError", from |-> 0]
    ELSE Raised(e)

\* The wrapper is called: last_exception = None, and the loop starts, or has
\* nothing to run and falls through to raise last_exception.
RetryCall ==
    /\ rpc = "idle"
    /\ last_exception' = NoException
    /\ IF max_attempts > 0
       THEN /\ attempt' = 0
            /\ rpc' = "try"
            /\ UNCHANGED outcome
       ELSE /\ rpc' = "done"
            /\ outcome' = RaisedLast(NoException)
            /\ UNCHANGED attempt
    /\ UNCHANGED <<notRetry, retryPolicy, invocations, sleeps, jittered,
                   cancelled>>

\* One pass of the loop body: func is invoked and gives r; the wrapper
\* returns, lets the failure through, raises it, or goes to sleep.
Invoke(r) ==
    LET n == Len(invocations) + 1
        e == [cls |-> r, from |-> n]
    IN  /\ rpc = "try"
        /\ invocations' = Append(invocations, r)
        /\ IF r \in Results
           THEN /\ outcome' = ReturnedResult(r, n)
                /\ rpc' = "done"
                /\ UNCHANGED <<last_exception, sleeps, jittered>>
           ELSE IF ~Caught(r)
           THEN /\ outcome' = Raised(e)
                /\ rpc' = "done"
                /\ UNCHANGED <<last_exception, sleeps, jittered>>
           ELSE /\ last_exception' = e
                /\ IF LastAttempt(attempt)
                   THEN /\ outcome' = Raised(e)
                        /\ rpc' = "done"
                        /\ UNCHANGED <<sleeps, jittered>>
                   ELSE /\ sleeps' = Append(sleeps, Backoff(attempt))
                        /\ jittered' \in Jitters(Backoff(attempt))
                        /\ rpc' = "sleep"
                        /\ UNCHANGED outcome
        /\ UNCHANGED <<notRetry, retryPolicy, attempt, cancelled>>

\* The sleep ends: the loop takes its next index, or is exhausted and the
\* wrapper raises last_exception.
Wake ==
    /\ rpc = "sleep"
    /\ IF attempt + 1 < max_attempts
       THEN /\ attempt' = attempt + 1
            /\ rpc' = "try"
            /\ UNCHANGED outcome
       ELSE /\ rpc' = "done"
            /\ outcome' = RaisedLast(last_exception)
            /\ UNCHANGED attempt
    /\ UNCHANGED <<notRetry, retryPolicy, last_exception, invocations,
                   sleeps, jittered, cancelled>>

RetryNext ==
    \/ RetryCall
    \/ \E r \in Results \cup FailureKinds : Invoke(r)
    \/ Wake

RetryInit ==
    IdleBucket /\ IdleRegistry /\ IdleIP /\ NewRetry
    /\ IdleWindow /\ IdleWeb /\ EmptyOutput

SpecRetry == RetryInit /\ [][RetryNext]_vars

\* The event loop (or the thread) runs the wrapper: the operation comes back
\* and a sleep ends.
SpecRetryLive == SpecRetry /\ WF_vars(RetryNext)

\* A wrapper whose try statement catches what its sleep raises, and goes on.
AfterCancelRetried ==
    [rpc |-> "try", outcome |-> outcome]

\* asyncio.CancelledError comes out of await asyncio.sleep(backoff_time): the
\* sleep stands in the except clause, outside the try body, so no clause of
\* the wrapper catches it and it leaves the wrapper.
AfterCancel ==
    [rpc |-> "done",
     outcome |-> Raised([cls |-> "CancelledError", from |-> 0])]

\* The task running the async wrapper is cancelled while it sleeps.
Cancel ==
    /\ rpc = "sleep"
    /\ is_async
    /\ cancelled' = TRUE
    /\ rpc' = AfterCancel.rpc
    /\ outcome' = AfterCancel.outcome
    /\ UNCHANGED <<notRetry, retryPolicy, attempt, last_exception,
                   invocations, sleeps, jittered>>

CancelNext == RetryNext \/ Cancel

SpecCancel == RetryInit /\ [][CancelNext]_vars

\* ----------------------------------------- web_app, the request hooks

\* The endpoints a request can resolve to: a route of the application, a
\* static file (the endpoints named static...), or none when no rule matches.
Endpoints == {"index", "static_files", "none"}

\* if ip_rate_limiter and request.endpoint: ... unless
\* request.endpoint.startswith('static'): the requests check_rate_limit
\* hands to is_allowed.
RateLimited(endpoint) ==
    /\ rate_limit_enabled
    /\ endpoint # "none"
    /\ endpoint # "static_files"

\* One inbound request from an address: the before_request hook, then the
\* route handler, the static file or the 404 handler, unless the hook has
\* answered already.
WebRequest(ip, endpoint) ==
    /\ IF RateLimited(endpoint)
       THEN /\ IsAllowed(ip)
            /\ webLast' = [endpoint |-> endpoint, ip |-> ip, checks |-> 1,
                           status |-> IF ~ipLast'.allowed THEN "429"
                                      ELSE "200",
                           handler |-> ipLast'.allowed,
                           served |-> ipLast'.allowed]
       ELSE /\ webLast' = [endpoint |-> endpoint, ip |-> ip, checks |-> 0,
                           status |-> IF endpoint = "none" THEN "404"
                                      ELSE "200",
                           handler |-> endpoint = "index",
                           served |-> TRUE]
            /\ UNCHANGED <<notIp, now, ipVars>>
    /\ UNCHANGED rate_limit_enabled

WebNext ==
    \/ IpTick
    \/ \E ip \in Addresses, endpoint \in Endpoints : WebRequest(ip, endpoint)

WebInit ==
    IdleBucket /\ IdleRegistry /\ NewIPLimiter /\ IdleRetry
    /\ IdleWindow /\ NewWeb /\ EmptyOutput

SpecWeb == WebInit /\ [][WebNext]_vars

\* --------------------------------------------------------- FilePublisher

\* The titles of the articles published.
Titles == {"Same Title", "a/b", "a_b"}

\* _sanitize_filename(title): the characters <>:"/\|?* become underscores.
SanitizeFilename(title) == IF title = "a/b" THEN "a_b" ELSE title

\* base_filename = f"{timestamp}_{safe_title}", the timestamp being
\* datetime.now() to the second.
BaseFilename(stamp, title) == <<stamp, SanitizeFilename(title)>>

\* html_path.write_text(...), md_path.write_text(...): a file of that name is
\* replaced.
Written(files, base, id) ==
    {f \in files : f.base # base}
        \cup {[base |-> base, ext |-> "html", article |-> id],
              [base |-> base, ext |-> "md", article |-> id]}

\* await publisher.publish(article), for the article after those published so
\* far; it returns success.
Publish(title) ==
    /\ published < MaxPublish
    /\ out_files' = Written(out_files, BaseFilename(now, title),
                            published + 1)
    /\ published' = published + 1
    /\ UNCHANGED <<notPub, now>>

PubTick ==
    /\ Clock
    /\ UNCHANGED <<notPub, pubVars>>

PubNext ==
    \/ PubTick
    \/ \E title \in Titles : Publish(title)

PubInit ==
    IdleBucket /\ IdleRegistry /\ IdleIP /\ IdleRetry /\ IdleWindow
    /\ IdleWeb /\ EmptyOutput

SpecPub == PubInit /\ [][PubNext]_vars

\* ----------------------- ContentGenerator._generate_content_with_retry

\* @retry(max_attempts=3, ...)
GenAttempts ==
    3

\* retry's default backoff_base, 2.0, in units of 1/BaseDen.
DefaultBase == 2 * BaseDen

\* retry's default backoff_max, in seconds.
DefaultBackoffMax ==
    60

\* A decorator left at retry's default on_exceptions.
GenOnExceptionsDefault == {"Exception"}

\* @retry(..., on_exceptions=(APIError, RateLimitError))
GenOnExceptions == {"APIError", "RateLimitError"}

\* What ai_provider.generate_content can do: return a usable text, return a
\* text that is empty or under 100 characters, or raise.
ProviderOutcomes ==
    Results \cup {"short", "empty"} \cup FailureKinds
            \cup {"NetworkError", "Exception"}

\* The body of the wrapped method after the provider has come back:
\* if not content or len(content.strip()) < 100: raise GenerationError(...)
Body(p) == IF p \in {"short", "empty"} THEN "GenerationError" ELSE p

\* One attempt: the limiter lets the call through, the provider is invoked
\* once and the body judges what it gave.
GenerateContent(p) == Invoke(Body(p))

GenNext ==
    \/ RetryCall
    \/ \E p \in ProviderOutcomes : GenerateContent(p)
    \/ Wake

\* The decorated method as content_generator.py builds it.
GenRetry ==
    /\ max_attempts = GenAttempts
    /\ backoff_base = DefaultBase
    /\ backoff_max = DefaultBackoffMax
    /\ jitter = TRUE
    /\ on_exceptions = GenOnExceptions
    /\ is_async = TRUE
    /\ NoRetryCall

GenInit ==
    IdleBucket /\ IdleRegistry /\ IdleIP /\ IdleWindow /\ GenRetry
    /\ IdleWeb /\ EmptyOutput

SpecGen == GenInit /\ [][GenNext]_vars

\* ------------------------------- utils.retry.RateLimiter, sliding window

\* min(self.requests)
Oldest(log) == CHOOSE t \in {log[i] : i \in DOMAIN log} :
                  \A i \in DOMAIN log : t <= log[i]

\* A limiter that leaves its lock before it sleeps.
HolderAsleepNone(c) == NoOwner

\* The holder of the lock while caller c sleeps: await asyncio.sleep stands
\* inside `async with self._lock`.
HolderAsleep(c) == c

\* if len(self.requests) >= self.max_requests
Full(log) == Len(log) >= max_requests

\* A caller calls acquire() and gets to `async with self._lock`.
WindowCall(c) ==
    /\ api_pc[c] = "idle"
    /\ api_pc' = [api_pc EXCEPT ![c] = "lock"]
    /\ UNCHANGED <<notWindow, now, max_requests, time_window, api_requests,
                   api_lock, wake_at, completed, apiLast>>

\* The caller gets the lock and runs to the first suspension point or to the
\* end: prune, check, and either record the request and leave, or go to
\* sleep until the oldest request leaves the window.
WindowLock(c) ==
    LET recent == Recent(api_requests, now - time_window)
    IN  /\ api_pc[c] = "lock"
        /\ api_lock = NoOwner
        /\ IF Full(recent)
           THEN /\ api_requests' = recent
                /\ wake_at' = Oldest(recent) + time_window
                /\ api_lock' = HolderAsleep(c)
                /\ api_pc' = [api_pc EXCEPT ![c] = "sleep"]
                /\ UNCHANGED <<completed, apiLast>>
           ELSE /\ api_requests' = Append(recent, now)
                /\ api_lock' = NoOwner
                /\ api_pc' = [api_pc EXCEPT ![c] = "idle"]
                /\ completed' = Append(completed, now)
                /\ apiLast' = [caller |-> c, at |-> now, waited |-> FALSE,
                               oldest |-> 0]
                /\ UNCHANGED wake_at
        /\ UNCHANGED <<notWindow, now, max_requests, time_window>>

\* The sleep is over: prune again, record the request, leave the lock.
WindowWake(c) ==
    /\ api_pc[c] = "sleep"
    /\ now >= wake_at
    /\ api_requests' = Append(Recent(api_requests, now - time_window), now)
    /\ api_lock' = IF api_lock = c THEN NoOwner ELSE api_lock
    /\ api_pc' = [api_pc EXCEPT ![c] = "idle"]
    /\ completed' = Append(completed, now)
    /\ apiLast' = [caller |-> c, at |-> now, waited |-> TRUE,
                   oldest |-> wake_at - time_window]
    /\ UNCHANGED <<notWindow, now, max_requests, time_window, wake_at>>

WindowTick ==
    /\ Clock
    /\ completed' = SelectSeq(completed, LAMBDA t : t > now' - time_window)
    /\ UNCHANGED <<notWindow, max_requests, time_window, api_requests,
                   api_lock, api_pc, wake_at, apiLast>>

WindowNext ==
    \/ WindowTick
    \/ \E c \in Callers : WindowCall(c)
    \/ \E c \in Callers : WindowLock(c)
    \/ \E c \in Callers : WindowWake(c)

WindowInit ==
    IdleBucket /\ IdleRegistry /\ IdleIP /\ IdleRetry /\ NewWindow
    /\ IdleWeb /\ EmptyOutput

SpecWindow == WindowInit /\ [][WindowNext]_vars

\* ------------------------------------------------- claims, token bucket

\* C1: after every acquire or reset call, whatever the amounts requested and
\* the time between calls, 0 <= tokens <= capacity.
BucketBound == 0 <= tokens /\ tokens <= capacity

\* C4: on a bucket just constructed or just reset, with no time elapsing, the
\* first `capacity` consecutive acquire(1) calls are granted and every later
\* one is denied: after k such calls, min(k, capacity) were granted.
AdmissionCorrect ==
    streak.calls >= 0 => streak.grants = Min(streak.calls, capacity)

\* C4 happens: a reset found an empty bucket, then capacity + 1 acquire(1)
\* calls were made and the last one was denied.
AdmissionWitness ==
    /\ streak.start = "reset"
    /\ streak.had = 0
    /\ streak.calls = capacity + 1
    /\ last.op = "acquire"
    /\ ~last.granted

\* C5: when the bucket was empty after the previous call and at least one
\* refill_period passed without calls, the next acquire finds at least
\* min(capacity, refill_rate) tokens after its refill step.
RefillCorrect ==
    (/\ last.op = "acquire"
     /\ last.before = 0
     /\ last.at - last.prevAt >= refill_period)
    => last.afterRefill * RateDen >= Min(capacity * RateDen, refill_rate)

\* C6 as stated, for whole-number rates: the refill step adds
\* floor(elapsed / refill_period) * refill_rate tokens, capped at capacity,
\* and advances last_refill; below one period it changes nothing.
RefillAddsWholePeriods ==
    (last.op = "acquire" /\ refill_rate % RateDen = 0 /\ last.before <= capacity)
    => IF last.elapsed >= refill_period
       THEN /\ last.afterRefill =
                 Min(capacity,
                     last.before + (last.elapsed \div refill_period)
                                   * (refill_rate \div RateDen))
            /\ last.lrAfter = last.at
       ELSE /\ last.afterRefill = last.before
            /\ last.lrAfter = last.lrBefore

\* C6 amended: the refill step adds int((elapsed / refill_period) * refill_rate)
\* tokens, capped at capacity, and sets last_refill to now; below one period
\* it changes neither tokens nor last_refill.
RefillAddsTruncatedProduct ==
    last.op = "acquire"
    => IF last.elapsed >= refill_period
       THEN /\ last.afterRefill =
                 Min(capacity,
                     last.before + (last.elapsed * refill_rate)
                                   \div (refill_period * RateDen))
            /\ last.lrAfter = last.at
       ELSE /\ last.afterRefill = last.before
            /\ last.lrAfter = last.lrBefore

\* C6 happens: a refill over a non-whole number of periods added more than
\* floor(elapsed / refill_period) * refill_rate tokens.
RefillWitness ==
    /\ last.op = "acquire"
    /\ last.elapsed >= refill_period
    /\ refill_rate % RateDen = 0
    /\ (last.afterRefill - last.before) * RateDen
         > (last.elapsed \div refill_period) * refill_rate

\* C7: a denied acquire(n) leaves the token count of its refill step; a
\* granted one leaves exactly n fewer.
DenialDeductsNothing ==
    last.op = "acquire"
    => /\ last.granted => last.after = last.afterRefill - last.n
       /\ ~last.granted => last.after = last.afterRefill

\* C7 happens: an acquire was denied although tokens were left in the bucket.
DenialWitness ==
    /\ last.op = "acquire"
    /\ ~last.granted
    /\ last.afterRefill >= 1
    /\ last.n > last.afterRefill

\* C8: acquire(n) with n > capacity is never granted.
OverCapacityDenied ==
    (last.op = "acquire" /\ last.n > capacity) => ~last.granted

\* C9: get_wait_time returns 0 when a token is available; otherwise an
\* acquire(1) issued right after waiting the returned duration, with no call
\* in between, is granted.
WaitTimeSuffices ==
    /\ (last.op = "wait" /\ last.before >= 1) => last.wait = 0
    /\ (last.op = "acquire" /\ last.afterWait /\ last.n = 1) => last.granted


RECURSIVE Granted(_, _, _)
\* The tokens granted by entries i..j of the log.
Granted(log, i, j) ==
    IF i > j THEN 0 ELSE log[i][2] + Granted(log, i + 1, j)

\* C3: the tokens granted within any interval of length T are at most
\* capacity + refill_rate * T / refill_period.
RateBound ==
    \A i \in 1..Len(grants) : \A j \in i..Len(grants) :
        Granted(grants, i, j) * RateDen * refill_period
            <= capacity * RateDen * refill_period
               + refill_rate * (grants[j][1] - grants[i][1])

\* ---------------------------------------- claims, concurrency, decorator

Done == \A c \in Callers : pc[c] = "done"

Returned(v) == Cardinality({c \in Callers : result[c] = v})

\* C2: the critical sections of two callers never overlap, and when the N
\* callers of acquire(1) found K < N tokens and no refill happened, exactly K
\* calls returned true and N - K returned false (never more than K grants).
NoDoubleSpend ==
    /\ Cardinality({c \in Callers : pc[c] \in InCritical}) <= 1
    /\ (conc.refills = 0 /\ conc.held < NumCallers)
       => /\ Returned("true") <= conc.held
          /\ Done => /\ Returned("true") = conc.held
                     /\ Returned("false") = NumCallers - conc.held

\* C2 happens: every caller has returned, no refill happened, some calls were
\* granted and some denied.
NoDoubleSpendWitness ==
    /\ Done
    /\ conc.refills = 0
    /\ conc.held >= 1
    /\ conc.held < NumCallers
    /\ Returned("false") >= 1

\* C10: the decorated function is invoked only after limiter.acquire(tokens)
\* has returned true for that call.
RunsOnlyAfterGrant ==
    wrapper.pc = "call_func" => wrapper.acquired

\* ------------------------------------------------- claims, registries

\* C11: every call of security.rate_limiting.get_rate_limiter(name), concurrent
\* first calls included, returns the same instance for a name, and two names
\* never share an instance.
OneLimiterPerName ==
    \A x \in returned : \A y \in returned : (x[1] = y[1]) <=> (x[2] = y[2])

\* C12: utils.retry.get_rate_limiter(provider) returns the same instance on
\* every call for a provider, configured or not.
OneLimiterPerProvider ==
    \A x \in provided : \A y \in provided : x[1] = y[1] => x[2] = y[2]

\* ------------------------------------------------- claims, IPRateLimiter

\* The timestamps of a log inside the window that trails time t.
InWindow(log, t) == SelectSeq(log, LAMBDA u : u > t - Window)

\* C13: is_allowed(address) returns True exactly when fewer than
\* requests_per_minute calls for that address were allowed within the window:
\* on a fresh limiter the first R calls in a window are allowed and the next
\* is denied, whatever was allowed for other addresses.
IpAdmission ==
    ipLast.op = "is_allowed"
    => (ipLast.allowed <=> ipLast.inWindow < requests_per_minute)

\* C13 happens: both addresses were allowed R calls each within one window and
\* the next call was denied.
IpAdmissionWitness ==
    /\ ipLast.op = "is_allowed"
    /\ ~ipLast.allowed
    /\ \A a \in Addresses : Len(allowed[a]) = requests_per_minute

\* C14: for every address, the calls allowed within the trailing window never
\* exceed requests_per_minute, sweeps included.
IpWindowBound ==
    \A a \in Addresses : Len(allowed[a]) <= requests_per_minute

\* C14 happens: a call that ran the sweep was allowed after earlier requests
\* of its address had left the window, and the address is at its ceiling.
IpWindowWitness ==
    /\ ipLast.op = "is_allowed"
    /\ ipLast.allowed
    /\ ipLast.swept
    /\ InWindow(ipLast.before[ipLast.ip].log, ipLast.at)
         # ipLast.before[ipLast.ip].log
    /\ Len(allowed[ipLast.ip]) = requests_per_minute

\* C15: a denied is_allowed leaves the address's log as it was; an allowed one
\* leaves the log's in-window timestamps followed by the current time.
IpDenialRecordsNothing ==
    ipLast.op = "is_allowed"
    => requests[ipLast.ip].log =
         IF ipLast.allowed
         THEN Append(InWindow(ipLast.before[ipLast.ip].log, ipLast.at),
                     ipLast.at)
         ELSE ipLast.before[ipLast.ip].log

\* C15 happens: a call was denied, in a call that also ran the sweep.
IpDenialWitness ==
    /\ ipLast.op = "is_allowed"
    /\ ~ipLast.allowed
    /\ ipLast.swept

\* C16: the sweep runs exactly in the calls made more than cleanup_interval
\* after the previous sweep; right after such a call every address in the
\* registry has a timestamp inside the window, and every address keeps
\* exactly its in-window timestamps (the caller's followed by its own).
IpSweep ==
    ipLast.op = "is_allowed"
    => /\ ipLast.swept <=> ipLast.at - ipLast.cleanupBefore > cleanup_interval
       /\ ipLast.swept =>
            \A a \in Addresses :
               /\ requests[a].present
                    => InWindow(requests[a].log, ipLast.at) # <<>>
               /\ ~requests[a].present => requests[a].log = <<>>
               /\ a # ipLast.ip
                    => requests[a].log = InWindow(ipLast.before[a].log, ipLast.at)
               /\ a = ipLast.ip
                    => SubSeq(requests[a].log, 1,
                              Len(InWindow(ipLast.before[a].log, ipLast.at)))
                       = InWindow(ipLast.before[a].log, ipLast.at)

\* C16 happens: a sweep evicted an address whose timestamps were all stale.
IpSweepWitness ==
    /\ ipLast.op = "is_allowed"
    /\ ipLast.swept
    /\ \E a \in Addresses : ipLast.before[a].present /\ ~requests[a].present

\* C17: get_remaining_requests changes nothing and returns
\* max(0, requests_per_minute - in-window timestamps of the address), which is
\* requests_per_minute for an address never seen.
IpRemaining ==
    ipLast.op = "remaining"
    => /\ requests = ipLast.before
       /\ LET left == requests_per_minute
                      - Len(InWindow(ipLast.before[ipLast.ip].log, ipLast.at))
          IN  ipLast.value = IF left > 0 THEN left ELSE 0
       /\ ~ipLast.before[ipLast.ip].present
            => ipLast.value = requests_per_minute

\* C17 happens: the address was never seen, and the call left it unseen.
IpRemainingWitness ==
    /\ ipLast.op = "remaining"
    /\ ~ipLast.before[ipLast.ip].present
    /\ \E a \in Addresses : ipLast.before[a].log # <<>>

\* ---------------------------------------------- claims, the retry wrapper

\* The failure kinds a tuple of classes declares retryable: each class with
\* its subclasses (models.py).
KindsOf(cls) ==
    CASE cls = "Exception" -> FailureKinds
      [] cls = "APIError" -> {"APIError", "RateLimitError"}
      [] OTHER -> {cls} \cap FailureKinds

Retryable(c) == \E cls \in on_exceptions : c \in KindsOf(cls)

\* The invocations before the latest all failed with a retryable failure.
EarlierRetryable ==
    \A i \in 1..(Len(invocations) - 1) : Retryable(invocations[i])

\* The latest invocation of the operation.
Latest == invocations[Len(invocations)]

\* C18: with max_attempts >= 1, a call whose every invocation failed with a
\* retryable failure has, once it ended, invoked the operation exactly
\* max_attempts times, slept between the attempts only, and raised the
\* failure of the last invocation itself; async and sync wrapper alike.
RetryExhausted ==
    (/\ rpc = "done"
     /\ invocations # <<>>
     /\ EarlierRetryable
     /\ Retryable(Latest))
    => /\ Len(invocations) = max_attempts
       /\ Len(sleeps) = max_attempts - 1
       /\ outcome = [kind |-> "raised", value |-> Latest,
                     from |-> max_attempts]

\* C18 happens: three attempts of the async wrapper all failed, the first and
\* the last with failures of different kinds, and the last one was raised.
RetryExhaustedWitness ==
    /\ rpc = "done"
    /\ is_async
    /\ max_attempts = MaxAttempts
    /\ Len(invocations) = MaxAttempts
    /\ EarlierRetryable
    /\ Retryable(Latest)
    /\ invocations[1] # Latest
    /\ outcome.kind = "raised"

\* C19 as stated: a call in which the operation raised a failure that is not
\* retryable invoked the operation exactly once and never slept, whatever
\* the attempt at which the failure came.
NonRetryableInvokedOnce ==
    (/\ invocations # <<>>
     /\ Latest \in FailureKinds
     /\ ~Retryable(Latest))
    => /\ Len(invocations) = 1
       /\ sleeps = <<>>

\* C19: a failure that is not retryable, raised at the attempt of index k
\* after k retryable failures, ends the call at once: it is raised itself,
\* the operation has been invoked k+1 times and is not invoked again, and
\* there were k sleeps, none after the failure. On the first attempt that is
\* one invocation and no sleep.
NonRetryableEndsCall ==
    (/\ invocations # <<>>
     /\ Latest \in FailureKinds
     /\ ~Retryable(Latest))
    => /\ rpc = "done"
       /\ outcome = [kind |-> "raised", value |-> Latest,
                     from |-> Len(invocations)]
       /\ Len(invocations) = attempt + 1
       /\ Len(sleeps) = attempt
       /\ EarlierRetryable
       /\ attempt = 0 => Len(invocations) = 1 /\ sleeps = <<>>

\* C19 happens: a failure that is not retryable came at the second attempt.
NonRetryableWitness ==
    /\ rpc = "done"
    /\ Len(invocations) = 2
    /\ Retryable(invocations[1])
    /\ Latest \in FailureKinds
    /\ ~Retryable(Latest)
    /\ outcome.kind = "raised"

\* C20: an invocation that succeeds is the last one: after k retryable
\* failures (k < max_attempts) and the success, the operation has been
\* invoked k+1 times, the call has ended and it returned that result.
RetrySuccess ==
    \A i \in DOMAIN invocations :
       invocations[i] \in Results
       => /\ i = Len(invocations)
          /\ i <= max_attempts
          /\ i = attempt + 1
          /\ Len(sleeps) = i - 1
          /\ EarlierRetryable
          /\ rpc = "done"
          /\ outcome = [kind |-> "returned", value |-> invocations[i],
                        from |-> i]

\* C20 happens: two retryable failures, then a success that was returned.
RetrySuccessWitness ==
    /\ rpc = "done"
    /\ Len(invocations) = 3
    /\ invocations[1] \in FailureKinds
    /\ invocations[2] \in FailureKinds
    /\ Latest \in Results
    /\ outcome.kind = "returned"

\* The backoffs slept so far never decrease from one attempt to the next.
NonDecreasing ==
    \A i \in DOMAIN sleeps : \A j \in DOMAIN sleeps :
       i <= j => sleeps[i] <= sleeps[j]

\* The backoffs stay under backoff_max, and the jitter of the latest sleep
\* within a tenth of its backoff (none when jitter is off).
CappedAndJittered ==
    /\ \A i \in DOMAIN sleeps : sleeps[i] <= backoff_max * Second
    /\ sleeps # <<>> =>
         /\ 0 <= jittered
         /\ jittered <= sleeps[Len(sleeps)]
         /\ ~jitter => jittered = 0

\* C21 as stated: for every retry configuration the backoff before jitter is
\* non-decreasing in the attempt index and at most backoff_max, and the
\* slept time is within [delay, 1.1 * delay].
BackoffMonotoneCapped == NonDecreasing /\ CappedAndJittered

\* C21: the backoff before jitter is at most backoff_max and the slept time
\* within [delay, 1.1 * delay] for every configuration; it is non-decreasing
\* in the attempt index when backoff_base >= 1.
BackoffMonotoneFromOne ==
    /\ CappedAndJittered
    /\ backoff_base >= BaseDen => NonDecreasing

\* C21 happens: two sleeps with a base above 1, the second longer than the
\* first and jittered.
BackoffWitness ==
    /\ backoff_base > BaseDen
    /\ Len(sleeps) = 2
    /\ sleeps[1] < sleeps[2]
    /\ jittered > 0

\* C22: every call of a wrapper with max_attempts >= 1 ends, after at most
\* max_attempts invocations and max_attempts - 1 sleeps, none of them after
\* the last invocation; it ends by returning the result of its last
\* invocation or by raising the failure of its last invocation.
RetryTerminates ==
    /\ [](max_attempts >= 1 =>
            /\ Len(invocations) <= max_attempts
            /\ Len(sleeps) <= max_attempts - 1
            /\ Len(sleeps) <= Len(invocations)
            /\ rpc = "done" =>
                 /\ invocations # <<>>
                 /\ Len(sleeps) = Len(invocations) - 1
                 /\ outcome.from = Len(invocations)
                 /\ outcome.value = Latest
                 /\ outcome.kind = IF Latest \in Results
                                   THEN "returned" ELSE "raised")
    /\ <>(rpc = "done")

\* C22 happens: a call ended after all its attempts and the sleeps between.
RetryTerminatesWitness ==
    /\ rpc = "done"
    /\ max_attempts = MaxAttempts
    /\ Len(invocations) = max_attempts
    /\ Len(sleeps) = max_attempts - 1
    /\ jittered > 0

\* C23: with max_attempts < 1 the first call of the wrapper ends at once by
\* raising an error: the operation is not invoked, nothing is slept and
\* nothing is returned.
MisconfiguredFailsFast ==
    (max_attempts < 1 /\ rpc # "idle")
    => /\ rpc = "done"
       /\ outcome.kind = "raised"
       /\ invocations = <<>>
       /\ sleeps = <<>>

\* C23 happens: a wrapper with max_attempts < 1 was called and raised the
\* interpreter's TypeError.
MisconfiguredWitness ==
    /\ max_attempts < 1
    /\ rpc = "done"
    /\ outcome = [kind |-> "raised", value |-> "TypeError", from |-> 0]

\* C24: a call of the async wrapper cancelled in its backoff sleep has ended
\* by raising CancelledError, which is no failure of the operation; the
\* operation has not been invoked since the sleep began.
CancelDistinct ==
    cancelled
    => /\ rpc = "done"
       /\ outcome = [kind |-> "raised", value |-> "CancelledError",
                     from |-> 0]
       /\ outcome.value \notin FailureKinds
       /\ Len(invocations) = Len(sleeps)
       /\ last_exception.from = Len(invocations)

\* C24 happens: a call was cancelled in its second sleep, after two failures
\* of the operation.
CancelWitness ==
    /\ cancelled
    /\ Len(sleeps) = 2
    /\ last_exception.cls \in FailureKinds
    /\ outcome.value = "CancelledError"

\* ------------------------------------- claims, limiters and suspension

\* C25: no caller of a limiter's acquire is suspended in a sleep while it
\* holds the limiter's lock, so that a caller waiting for room never keeps
\* the other callers of that limiter out.
NoSleepUnderLock ==
    \A c \in Callers : api_pc[c] = "sleep" => api_lock # c

\* C29: the requests recorded by acquire within the trailing time_window
\* never exceed max_requests, under every interleaving of the callers; and a
\* caller that found the window full recorded its request only once the
\* oldest request had left the window.
WindowBound ==
    /\ Len(completed) <= max_requests
    /\ apiLast.waited => apiLast.at >= apiLast.oldest + time_window

\* C29 happens: a caller slept on a full window while another caller stood
\* at the lock, and recorded its request with the window full again.
WindowBoundWitness ==
    /\ apiLast.waited
    /\ Len(completed) = max_requests
    /\ max_requests = MaxRequests
    /\ \E c \in Callers : api_pc[c] = "lock"

\* ------------------------------------------ claims, content generation

\* The failures the content generator's policy retries: APIError with its
\* subclasses (models.py).
GenRetried == {"APIError", "RateLimitError", "NetworkError"}

\* The latest attempt ended in a failure the policy does not retry.
GenOtherFailure ==
    /\ invocations # <<>>
    /\ Latest \notin Results
    /\ Latest \notin GenRetried

\* C26 as stated: a call in which the provider's attempt ended in a failure
\* other than APIError and RateLimitError invoked the provider exactly once.
GenOtherInvokedOnce == GenOtherFailure => Len(invocations) = 1

\* C26: the provider is invoked at most 3 times, an attempt is followed by
\* another only after an APIError or RateLimitError, and any other failure,
\* GenerationError for an empty or short text included, ends the call at
\* once and is the failure raised; on the first attempt that is exactly one
\* invocation of the provider.
GenTerminal ==
    /\ Len(invocations) <= GenAttempts
    /\ \A i \in 1..(Len(invocations) - 1) : invocations[i] \in GenRetried
    /\ GenOtherFailure =>
         /\ rpc = "done"
         /\ outcome = [kind |-> "raised", value |-> Latest,
                       from |-> Len(invocations)]
         /\ Len(sleeps) = Len(invocations) - 1
         /\ attempt = 0 => Len(invocations) = 1

\* C26 happens: the provider failed with an APIError, was invoked again and
\* gave a text too short, and the GenerationError was raised.
GenTerminalWitness ==
    /\ rpc = "done"
    /\ invocations = <<"APIError", "GenerationError">>
    /\ outcome.kind = "raised"
    /\ outcome.value = "GenerationError"

\* ------------------------------------------------- claims, web layer

\* C27: with rate limiting enabled, every inbound request has had is_allowed
\* called exactly once for its address before anything else was done with it,
\* and a request that was denied got a 429 and never reached its handler.
EveryRequestChecked ==
    (rate_limit_enabled /\ webLast.status # "none")
    => /\ webLast.checks = 1
       /\ ipLast.op = "is_allowed"
       /\ ipLast.ip = webLast.ip
       /\ ~ipLast.allowed => webLast.status = "429" /\ ~webLast.handler

\* The part of C27 the code keeps: the same, for the requests that resolve
\* to a route of the application.
RoutedRequestChecked ==
    (rate_limit_enabled /\ webLast.endpoint = "index")
    => /\ webLast.checks = 1
       /\ ipLast.op = "is_allowed"
       /\ ipLast.ip = webLast.ip
       /\ ipLast.allowed <=> webLast.handler
       /\ ~ipLast.allowed <=> webLast.status = "429"

\* --------------------------------------------- claims, file publisher

\* C28: after N articles were published one after another, whatever their
\* titles, the output directory holds N HTML files and N Markdown files, one
\* pair for each article.
NoPublishOverwrites ==
    /\ Cardinality({f \in out_files : f.ext = "html"}) = published
    /\ Cardinality({f \in out_files : f.ext = "md"}) = published
    /\ \A id \in 1..published :
          \E f \in out_files : f.article = id /\ f.ext = "html"

\* ------------------------------------------------- claims, starvation

\* The caller's latest acquire(1) was denied: the bucket is exhausted.
DeniedNow == last.op = "acquire" /\ ~last.granted

\* The caller's latest acquire(1) was granted.
GrantedNow == last.op = "acquire" /\ last.granted

\* C30: a caller denied by an exhausted bucket, who keeps retrying acquire(1)
\* while time advances, is eventually granted a token, whatever the spacing
\* of its retries.
NoStarvation == DeniedNow ~> GrantedNow

\* The same for the buckets that refill at least one token per period.
NoStarvationWholeRate ==
    (DeniedNow /\ refill_rate >= RateDen) ~> GrantedNow

=============================================================================
